---- MODULE Spec2Model ----
(***************************************************************************)
(* Model of the match registry (server/match_registry.go) and of the       *)
(* relayed data distribution of the realtime pipeline                      *)
(* (server/pipeline_match.go) of the Nakama server.                        *)
(*                                                                         *)
(* The specifications share the variables:                                 *)
(*   SpecRelay  the relayed branch of pipeline.matchDataSend over a        *)
(*              presence stream whose membership changes,                  *)
(*   Spec       the registry's Join bridge, the match actors' mailboxes    *)
(*              and Stop,                                                  *)
(*   SpecOps    Join, Leave and SendData on either node label, and Stop,   *)
(*   SpecDir    the directory and the tracker under NewMatch, RemoveMatch, *)
(*   SpecActor  one actor, its producers and RemoveMatch,                  *)
(*   SpecJoin   matchCreate, matchJoin and matchLeave over the tracker,    *)
(*              the registry and the actor,                                *)
(*   SpecData   matchDataSend to authoritative matches,                    *)
(*   SpecWire   the handlers on envelopes from the wire,                   *)
(*   SpecKick   Kick against the streams,                                  *)
(*   SpecRelayed  the handlers on a relayed match beside a registered one, *)
(*   SpecLock   the mutex between waiting Joins and the writers,           *)
(*   SpecLife   NewMatch against an actor that ends its match,             *)
(*   SpecRemoveJoin  matchJoin against RemoveMatch.                        *)
(***************************************************************************)
EXTENDS Integers, Sequences, FiniteSets, TLC

VARIABLES
    tracker,      \* Tracker: stream -> set of presences tracked on it
    lastSend,     \* the last matchDataSend on the relayed stream: inputs and router calls
    matches,      \* LocalMatchRegistry.matches: the identifiers in the directory
    handler,      \* per identifier: the MatchHandler's state ("none", "running", "closed")
    mailbox,      \* per identifier: the MatchHandler's call queue
    current,      \* per identifier: the message the actor is processing, or NoMsg
    pending,      \* identifiers whose NewMatch has built the handler and not yet inserted it
    wlock,        \* the RWMutex is write-held across steps (only Stop holds it across steps)
    stop,         \* the Stop() call: pc and the directory it found
    calls,        \* per caller: the registry call it is executing
    joinsStarted, \* number of reply channels made so far (one per Join that found its match)
    resultCh,     \* per reply channel: its one-slot buffer, the decision and the attempt decided
    rm,           \* the RemoveMatch() call in progress
    req,          \* per session: the pipeline handler it is executing and what it was sent
    issued,       \* the relayed match identifiers matchCreate has generated
    kicked        \* the last Kick() call: its arguments and the tracker it found

vars == <<tracker, lastSend, matches, handler, mailbox, current, pending, wlock,
          stop, calls, joinsStarted, resultCh, rm, req, issued, kicked>>

pipeVars == <<req, issued, kicked>>
relayVars == <<tracker, lastSend, req, issued, kicked>>
registryVars == <<matches, handler, mailbox, current, pending, wlock, stop, calls,
                  joinsStarted, resultCh, rm>>

(***************************************************************************)
(* Bounds of the model.                                                    *)
(***************************************************************************)
\* Longest recipient filter list of a MatchDataSend.
MaxFilters == 2
\* Capacity of a match handler's call queue.
QueueSize == 2
\* Number of Join calls that reach the enqueue, each with a reply channel of its own.
MaxJoins == 3

(***************************************************************************)
(* Presences.  A session belongs to one user; u1 is connected twice.       *)
(***************************************************************************)
Users == {"u1", "u2"}
Sessions == {"s1", "s2", "s3"}
LocalNode == "n1"
Nodes == {"n1", "n2"}

\* MatchPresence / Presence: the fields the registry and the pipeline read.
Presences ==
    { [userID |-> "u1", sessionID |-> "s1", node |-> "n1"],
      [userID |-> "u2", sessionID |-> "s2", node |-> "n2"],
      [userID |-> "u1", sessionID |-> "s3", node |-> "n1"] }

\* matchDataFilter: any (userID, sessionID) pair a client may name.
matchDataFilter == [userID : Users, sessionID : Sessions]

\* An entry of incoming.Presences: strings, "bad" one that uuid.FromString rejects.
BadUUID == "bad"
WireFilters == [userID : Users \cup {BadUUID}, sessionID : Sessions \cup {BadUUID}]

RelayedStream == "relayed"
AuthStreams == {"st1", "st2"}
Streams == {RelayedStream} \cup AuthStreams

SeqsUpTo(S, n) == UNION { [1..k -> S] : k \in 0..n }

\* Every order in which ListByStream may return the set S.
Orders(S) == { f \in [1..Cardinality(S) -> S] : \A i, j \in DOMAIN f : f[i] = f[j] => i = j }

(***************************************************************************)
(* pipeline.matchDataSend, relayed branch.                                 *)
(***************************************************************************)
\* ps[i] = ps[len(ps)-1]; ps = ps[:len(ps)-1]   (1-based here)
SwapRemoveDropsLast(s, i) == SubSeq(s, 1, Len(s) - 1)
SwapRemove(s, i) == [k \in 1..(Len(s) - 1) |-> IF k = i THEN s[Len(s)] ELSE s[k]]

\* p.ID.SessionID == session.ID() && p.UserID == session.UserID()
IsSenderByUser(p, session) == p.userID = session.userID
IsSender(p, session) == p.sessionID = session.sessionID /\ p.userID = session.userID

\* p.ID.SessionID == filter.sessionID && p.UserID == filter.userID
FilterMatches(p, filter) == p.sessionID = filter.sessionID /\ p.userID = filter.userID

\* The inner loop over the filters: index of the first filter matching p, 0 when none.
FirstMatch(filters, p) ==
    LET hits == { j \in 1..Len(filters) : FilterMatches(p, filters[j]) }
    IN  IF hits = {} THEN 0 ELSE CHOOSE j \in hits : \A k \in hits : j <= k

\* Parse any filters: nil when the message names none, "error" when one does not parse.
ParseFilters(incoming) ==
    IF Len(incoming) = 0 THEN [nil |-> TRUE, err |-> FALSE, list |-> <<>>]
    ELSE IF \E i \in 1..Len(incoming) :
                incoming[i].userID = BadUUID \/ incoming[i].sessionID = BadUUID
         THEN [nil |-> TRUE, err |-> TRUE, list |-> <<>>]
         ELSE [nil |-> FALSE, err |-> FALSE, list |-> incoming]

\* The scan of the membership from index i on: the sender is dropped, and with
\* filters every presence no filter names; a matching filter is consumed.
RECURSIVE Scan(_, _, _, _, _, _)
Scan(ps, filters, nilFilters, session, i, senderFound) ==
    IF i > Len(ps) THEN [ps |-> ps, senderFound |-> senderFound]
    ELSE IF IsSender(ps[i], session)
         THEN IF nilFilters
              THEN [ps |-> SwapRemove(ps, i), senderFound |-> TRUE]
              ELSE Scan(SwapRemove(ps, i), filters, nilFilters, session, i, TRUE)
         ELSE IF ~nilFilters
              THEN LET j == FirstMatch(filters, ps[i])
                   IN  IF j # 0
                       THEN Scan(ps, SwapRemove(filters, j), nilFilters, session,
                                 i + 1, senderFound)
                       ELSE Scan(SwapRemove(ps, i), filters, nilFilters, session,
                                 i, senderFound)
              ELSE Scan(ps, filters, nilFilters, session, i + 1, senderFound)

\* Whether the router is called after the scan.
DeliversIgnoringSender(scan) == Len(scan.ps) # 0
Delivers(scan) == scan.senderFound /\ Len(scan.ps) # 0

\* The lists handed to router.SendToPresences by one relayed matchDataSend:
\* none or one.
RouterCalls(ps, session, incoming) ==
    LET f == ParseFilters(incoming)
    IN  IF f.err \/ Len(ps) = 0 THEN <<>>
        ELSE LET scan == Scan(ps, f.list, f.nil, session, 1, FALSE)
             IN  IF Delivers(scan) THEN <<scan.ps>> ELSE <<>>

NoSession == [userID |-> "none", sessionID |-> "none", node |-> "none"]
NoSend == [pc |-> "idle", ps |-> <<>>, session |-> NoSession, incoming |-> <<>>,
           routed |-> <<>>]

\* A client whose match identifier parsed to a relayed stream sends data.
matchDataSendRelayed(session, incoming) ==
    /\ lastSend.pc = "idle"
    /\ \E ps \in Orders(tracker[RelayedStream]) :
          lastSend' = [pc |-> "sent", ps |-> ps, session |-> session,
                       incoming |-> incoming,
                       routed |-> RouterCalls(ps, session, incoming)]
    /\ UNCHANGED tracker
    /\ UNCHANGED pipeVars
    /\ UNCHANGED registryVars

\* The handler has returned and the router has delivered what it was handed.
matchDataSendReturn ==
    /\ lastSend.pc = "sent"
    /\ lastSend' = NoSend
    /\ UNCHANGED tracker
    /\ UNCHANGED pipeVars
    /\ UNCHANGED registryVars

\* tracker.Track / tracker.Untrack on the relayed stream (matchCreate, matchJoin, matchLeave).
TrackRelayed(p) ==
    /\ lastSend.pc = "idle"
    /\ p \notin tracker[RelayedStream]
    /\ tracker' = [tracker EXCEPT ![RelayedStream] = @ \cup {p}]
    /\ UNCHANGED lastSend
    /\ UNCHANGED pipeVars
    /\ UNCHANGED registryVars

UntrackRelayed(p) ==
    /\ lastSend.pc = "idle"
    /\ p \in tracker[RelayedStream]
    /\ tracker' = [tracker EXCEPT ![RelayedStream] = @ \ {p}]
    /\ UNCHANGED lastSend
    /\ UNCHANGED pipeVars
    /\ UNCHANGED registryVars

(***************************************************************************)
(* The match registry and the match actors.                                *)
(***************************************************************************)
MatchIds == {"m1", "m2"}
Callers == {"c1", "c2"}
Channels == 1..MaxJoins

NoMsg == [kind |-> "none", ch |-> 0]
JoinAttempt(ch) == [kind |-> "JoinAttempt", ch |-> ch]
LeaveMsg == [kind |-> "Leave", ch |-> 0]
MatchDataMessage == [kind |-> "Data", ch |-> 0]

NoResult == <<>>
\* A registry call of a caller.  Only what the rest of the call reads is kept: the
\* identifier until the enqueue, the reply channel while waiting, the outcome at the end.
NoCall == [op |-> "none", pc |-> "idle", id |-> "none", ch |-> 0,
           res |-> NoResult, via |-> "none"]
Found(op, id) == [NoCall EXCEPT !.op = op, !.pc = "found", !.id = id]
Waiting(ch) == [NoCall EXCEPT !.op = "Join", !.pc = "waiting", !.ch = ch]
Returned(op, via, res) == [NoCall EXCEPT !.op = op, !.pc = "done", !.via = via, !.res = res]

\* What Join returns where Leave and SendData return nothing.
Ret(op, res) == IF op = "Join" THEN res ELSE NoResult

\* MatchHandler.QueueCall / QueueData: a non-blocking send to the bounded queue,
\* refused when the queue is full or the handler is closed.
QueueAccepts(id) == handler[id] = "running" /\ Len(mailbox[id]) < QueueSize

\* r.RLock(); mh, ok = r.matches[id]; r.RUnlock()
LookupFindsAll(id) == TRUE
Lookup(id) == id \in matches
CanRLockAlways == TRUE
CanRLock == ~wlock

\* Whether a call holds the read lock between two of its steps: r.RUnlock() follows the
\* map read at once, so a call that has found its match holds it no more.
HoldsRLockUntilReturn(c) == calls[c].pc \in {"found", "waiting"}
HoldsRLock(c) == FALSE

\* r.Lock(): no writer and no reader holds the mutex.
CanLock == ~wlock /\ \A c \in Callers : ~HoldsRLock(c)

\* if node != r.node
OtherNodeNever(node) == FALSE
OtherNode(node) == node # LocalNode

\* NewMatch: NewMatchHandler builds and starts the actor ...
NewMatchCreate(id) ==
    /\ handler[id] = "none"
    /\ handler' = [handler EXCEPT ![id] = "running"]
    /\ pending' = pending \cup {id}
    /\ UNCHANGED <<matches, mailbox, current, wlock, stop, calls, joinsStarted,
                   resultCh, rm>>
    /\ UNCHANGED relayVars

\* ... and then r.Lock(); r.matches[id] = match; r.Unlock()
NewMatchInsert(id) ==
    /\ id \in pending
    /\ CanLock
    /\ matches' = matches \cup {id}
    /\ pending' = pending \ {id}
    /\ UNCHANGED <<handler, mailbox, current, wlock, stop, calls, joinsStarted,
                   resultCh, rm>>
    /\ UNCHANGED relayVars

\* Joins that have found their match and not yet reached the enqueue.
JoinsFound == Cardinality({ d \in Callers : calls[d].op = "Join" /\ calls[d].pc = "found" })

\* Join, Leave, SendData up to the lookup: the node check and the directory read.
Begin(c, op, id, node) ==
    /\ calls[c].pc \in {"idle", "done"}
    /\ op = "Join" => joinsStarted + JoinsFound < MaxJoins
    /\ IF OtherNode(node)
       THEN calls' = [calls EXCEPT ![c] = Returned(op, "node", Ret(op, <<FALSE, FALSE>>))]
       ELSE /\ CanRLock
            /\ IF Lookup(id)
               THEN calls' = [calls EXCEPT ![c] = Found(op, id)]
               ELSE calls' = [calls EXCEPT ![c] =
                                 Returned(op, "absent", Ret(op, <<FALSE, FALSE>>))]
    /\ UNCHANGED <<matches, handler, mailbox, current, pending, wlock, stop,
                   joinsStarted, resultCh, rm>>
    /\ UNCHANGED relayVars

\* Join: resultCh := make(chan bool, 1); mh.QueueCall(JoinAttempt(resultCh, ...)).
\* A channel whose attempt is refused is never used: only enqueued attempts are numbered.
\* "The match call queue was full, so will be closed and therefore can't be joined."
RefusedNotFound == <<FALSE, FALSE>>
Refused == <<TRUE, FALSE>>

JoinEnqueue(c) ==
    /\ calls[c].op = "Join" /\ calls[c].pc = "found"
    /\ LET id == calls[c].id
           ch == joinsStarted + 1
       IN  IF QueueAccepts(id)
           THEN /\ mailbox' = [mailbox EXCEPT ![id] = Append(@, JoinAttempt(ch))]
                /\ joinsStarted' = ch
                /\ calls' = [calls EXCEPT ![c] = Waiting(ch)]
           ELSE /\ calls' = [calls EXCEPT ![c] = Returned("Join", "full", Refused)]
                /\ UNCHANGED <<mailbox, joinsStarted>>
    /\ UNCHANGED <<matches, handler, current, pending, wlock, stop, resultCh, rm>>
    /\ UNCHANGED relayVars

\* Join: case <-ticker.C
TimedOutNotFound == <<FALSE, FALSE>>
TimedOut == <<TRUE, FALSE>>

JoinTimeout(c) ==
    /\ calls[c].op = "Join" /\ calls[c].pc = "waiting"
    /\ calls' = [calls EXCEPT ![c] = Returned("Join", "timeout", TimedOut)]
    /\ UNCHANGED <<matches, handler, mailbox, current, pending, wlock, stop,
                   joinsStarted, resultCh, rm>>
    /\ UNCHANGED relayVars

\* Join: case r := <-resultCh
ReceivedAlwaysTrue(c) == <<TRUE, TRUE>>
Received(c) == <<TRUE, Head(resultCh[calls[c].ch]).d>>

JoinReceive(c) ==
    /\ calls[c].op = "Join" /\ calls[c].pc = "waiting"
    /\ resultCh[calls[c].ch] # <<>>
    /\ calls' = [calls EXCEPT ![c] = Returned("Join", "reply", Received(c))]
    /\ resultCh' = [resultCh EXCEPT ![calls[c].ch] = <<>>]
    /\ UNCHANGED <<matches, handler, mailbox, current, pending, wlock, stop,
                   joinsStarted, rm>>
    /\ UNCHANGED relayVars

\* Leave: mh.QueueCall(Leave(presences)); SendData: mh.QueueData(&MatchDataMessage{...}).
\* Neither looks at the outcome.
NotifyEnqueueWaits(c) ==
    /\ calls[c].op \in {"Leave", "SendData"} /\ calls[c].pc = "found"
    /\ QueueAccepts(calls[c].id)
    /\ mailbox' = [mailbox EXCEPT ![calls[c].id] =
                      Append(@, IF calls[c].op = "Leave" THEN LeaveMsg ELSE MatchDataMessage)]
    /\ calls' = [calls EXCEPT ![c] = Returned(calls[c].op, "queued", NoResult)]
    /\ UNCHANGED <<matches, handler, current, pending, wlock, stop, joinsStarted,
                   resultCh, rm>>
    /\ UNCHANGED relayVars

NotifyEnqueue(c) ==
    /\ calls[c].op \in {"Leave", "SendData"} /\ calls[c].pc = "found"
    /\ LET id == calls[c].id
           op == calls[c].op
           msg == IF op = "Leave" THEN LeaveMsg ELSE MatchDataMessage
       IN  IF QueueAccepts(id)
           THEN /\ mailbox' = [mailbox EXCEPT ![id] = Append(@, msg)]
                /\ calls' = [calls EXCEPT ![c] = Returned(op, "queued", NoResult)]
           ELSE /\ calls' = [calls EXCEPT ![c] = Returned(op, "full", NoResult)]
                /\ UNCHANGED mailbox
    /\ UNCHANGED <<matches, handler, current, pending, wlock, stop, joinsStarted,
                   resultCh, rm>>
    /\ UNCHANGED relayVars

\* The actor's one loop is between two messages: no callback of it is running.
ActorIdleAlways(id) == TRUE
ActorIdle(id) == current[id] = NoMsg

\* What the loop's receive takes from a non-empty queue, and what it leaves.
DequeuedNewest(q) == [msg |-> q[Len(q)], rest |-> SubSeq(q, 1, Len(q) - 1)]
Dequeued(q) == [msg |-> Head(q), rest |-> Tail(q)]

\* The actor's loop takes the next message of its queue ...
ActorDequeue(id) ==
    /\ handler[id] = "running"
    /\ ActorIdle(id)
    /\ mailbox[id] # <<>>
    /\ current' = [current EXCEPT ![id] = Dequeued(mailbox[id]).msg]
    /\ mailbox' = [mailbox EXCEPT ![id] = Dequeued(mailbox[id]).rest]
    /\ UNCHANGED <<matches, handler, pending, wlock, stop, calls, joinsStarted,
                   resultCh, rm>>
    /\ UNCHANGED relayVars

\* The channel the actor answers a join attempt on: the one carried by the attempt.
ReplyChannel(msg) == msg.ch

\* resultCh := make(chan bool, 1)
ChannelCapacity == 1

\* A Join is in its select, reading channel ch.
Reading(ch) == \E c \in Callers : calls[c].pc = "waiting" /\ calls[c].ch = ch

\* A send on the channel completes: the buffer has room, or a reader takes the value.
CanSendUnbuffered(ch) == Reading(ch)
CanSend(ch) == Len(resultCh[ch]) < ChannelCapacity \/ Reading(ch)

\* ... and runs its callback; the decision d on a join attempt goes to its reply
\* channel.  "for" remembers the attempt the callback decided.
ActorFinish(id) ==
    /\ current[id] # NoMsg
    /\ current' = [current EXCEPT ![id] = NoMsg]
    /\ IF current[id].kind = "JoinAttempt"
       THEN /\ CanSend(ReplyChannel(current[id]))
            /\ \E d \in BOOLEAN :
                 resultCh' = [resultCh EXCEPT ![ReplyChannel(current[id])] =
                                 <<[d |-> d, for |-> current[id].ch]>>]
       ELSE UNCHANGED resultCh
    /\ UNCHANGED <<matches, handler, mailbox, pending, wlock, stop, calls,
                   joinsStarted, rm>>
    /\ UNCHANGED relayVars

\* MatchHandler.Close: the queue's contents are discarded and the loop ends.
Close(id) == [h |-> [handler EXCEPT ![id] = "closed"],
              q |-> [mailbox EXCEPT ![id] = <<>>]]

\* Stop: r.Lock()
StopBegin ==
    /\ stop.pc = "idle"
    /\ CanLock
    /\ wlock' = TRUE
    /\ stop' = [pc |-> "clearing", found |-> matches]
    /\ UNCHANGED <<matches, handler, mailbox, current, pending, calls, joinsStarted,
                   resultCh, rm>>
    /\ UNCHANGED relayVars

\* Stop: one round of the loop: mh.Close(); delete(r.matches, id)
StopStepDeletes(id) == matches \ {id}

StopStep(id) ==
    /\ stop.pc = "clearing"
    /\ id \in matches
    /\ handler' = Close(id).h
    /\ mailbox' = Close(id).q
    /\ matches' = StopStepDeletes(id)
    /\ UNCHANGED <<current, pending, wlock, stop, calls, joinsStarted, resultCh,
                   rm>>
    /\ UNCHANGED relayVars

\* Stop: the loop is over: r.Unlock()
StopEnd ==
    /\ stop.pc = "clearing"
    /\ matches = {}
    /\ wlock' = FALSE
    /\ stop' = [stop EXCEPT !.pc = "done"]
    /\ UNCHANGED <<matches, handler, mailbox, current, pending, calls, joinsStarted,
                   resultCh, rm>>
    /\ UNCHANGED relayVars

\* RemoveMatch: r.Lock(); delete(r.matches, id); r.Unlock()
DeleteAll(id) == {}
Delete(id) == matches \ {id}

\* The RemoveMatch call: its arguments, whether it found the identifier registered
\* and the presences its untrack found on the stream.
NoRemove == [pc |-> "idle", id |-> "none", stream |-> "none",
             wasIn |-> FALSE, tracked |-> {}]

\* RemoveMatch as it would be if it closed the handler the way Stop does.
RemoveMatchDeleteCloses(id, stream) ==
    /\ rm.pc \in {"idle", "done"}
    /\ CanLock
    /\ matches' = Delete(id)
    /\ handler' = IF handler[id] = "running" THEN Close(id).h ELSE handler
    /\ mailbox' = Close(id).q
    /\ rm' = [pc |-> "deleted", id |-> id, stream |-> stream,
              wasIn |-> (id \in matches), tracked |-> {}]
    /\ UNCHANGED relayVars
    /\ UNCHANGED <<current, pending, wlock, stop, calls, joinsStarted, resultCh>>
RemoveMatchDelete(id, stream) ==
    /\ rm.pc \in {"idle", "done"}
    /\ CanLock
    /\ matches' = Delete(id)
    /\ rm' = [pc |-> "deleted", id |-> id, stream |-> stream,
              wasIn |-> (id \in matches), tracked |-> {}]
    /\ UNCHANGED relayVars
    /\ UNCHANGED <<handler, mailbox, current, pending, wlock, stop, calls,
                   joinsStarted, resultCh>>

\* RemoveMatch: r.tracker.UntrackByStream(stream)
UntrackByStream(stream) == [tracker EXCEPT ![stream] = {}]

RemoveMatchUntrack ==
    /\ rm.pc = "deleted"
    /\ tracker' = UntrackByStream(rm.stream)
    /\ rm' = [rm EXCEPT !.pc = "done", !.tracked = tracker[rm.stream]]
    /\ UNCHANGED <<lastSend, req, issued, kicked>>
    /\ UNCHANGED <<matches, handler, mailbox, current, pending, wlock, stop, calls,
                   joinsStarted, resultCh>>

\* The stream of an authoritative match of this registry.
StreamOf(id) == IF id = "m1" THEN "st1" ELSE "st2"

\* The running actor of id ends its match: it calls RemoveMatch for itself.
ActorRemoveMatch(id) ==
    /\ handler[id] = "running"
    /\ RemoveMatchDelete(id, StreamOf(id))

\* tracker.Track on the stream of an authoritative match (a session joins it).
TrackAuth(stream, p) ==
    /\ p \notin tracker[stream]
    /\ tracker' = [tracker EXCEPT ![stream] = @ \cup {p}]
    /\ UNCHANGED lastSend
    /\ UNCHANGED pipeVars
    /\ UNCHANGED registryVars

(***************************************************************************)
(* The realtime pipeline: matchCreate, matchJoin, matchLeave, matchDataSend.*)
(***************************************************************************)
\* The sessions connected to this node; each runs one handler at a time.
SessionOf(c) ==
    IF c = "c1" THEN [userID |-> "u1", sessionID |-> "s1", node |-> LocalNode]
                ELSE [userID |-> "u1", sessionID |-> "s3", node |-> LocalNode]

\* Match identifiers on the wire: strings, here sequences of the pieces the parse
\* tells apart: a text uuid.FromString accepts ("r1", "m1", "m2"), one it rejects
\* ("zz"), the separator and a node label.
Separator == ":"
UUIDTexts == {"r1", "m1", "m2"}
NoLabel == ""
WireIds ==
    { <<"r1", ":">>, <<"m1", ":", "n1">>, <<"m2", ":", "n2">>,
      <<"r1">>, <<"m1", "n1">>, <<"zz", ":">>, <<"zz", ":", "n1">>, <<":", "n1">>, <<>> }

\* strings.SplitN(s, ":", 2): s itself when it holds no separator, else what lies
\* before the first separator and all that lies after it.
SplitN2(str) ==
    LET seps == { i \in DOMAIN str : str[i] = Separator }
    IN  IF seps = {} THEN <<str>>
        ELSE LET i == CHOOSE k \in seps : \A m \in seps : k <= m
             IN  <<SubSeq(str, 1, i - 1), SubSeq(str, i + 1, Len(str))>>

\* uuid.FromString: err == nil
FromStringOk(text) == Len(text) = 1 /\ text[1] \in UUIDTexts

\* The label a component spells; the wire identifiers carry at most one piece of it.
LabelOf(text) == IF text = <<>> THEN NoLabel ELSE text[1]

\* "Validate the match ID": the components, or the BadInput the handler answers with.
ParseMatchId(str) ==
    LET matchIDComponents == SplitN2(str)
    IN  IF Len(matchIDComponents) # 2
        THEN [ok |-> FALSE, matchID |-> "none", node |-> NoLabel]
        ELSE IF ~FromStringOk(matchIDComponents[1])
             THEN [ok |-> FALSE, matchID |-> "none", node |-> NoLabel]
             ELSE [ok |-> TRUE, matchID |-> matchIDComponents[1][1],
                   node |-> LabelOf(matchIDComponents[2])]

\* Envelopes: the one message an envelope holds, of the kind the pipeline dispatches
\* on: its match identifier and, for a MatchJoin, what its Id is (a match identifier,
\* a token, or nothing).
Envelope(kind, matchId) == [kind |-> kind, id |-> "MatchId", matchId |-> matchId]
JoinByToken == [kind |-> "MatchJoin", id |-> "Token", matchId |-> <<>>]
JoinWithoutId == [kind |-> "MatchJoin", id |-> "none", matchId |-> <<>>]
JoinEnvelopes ==
    { Envelope("MatchJoin", w) : w \in WireIds } \cup {JoinByToken, JoinWithoutId}

\* envelope.GetMatchLeave(): the MatchLeave message, nil for an envelope of another kind.
Nil == [kind |-> "nil", id |-> "none", matchId |-> <<>>]
GetMatchLeave(envelope) == IF envelope.kind = "MatchLeave" THEN envelope ELSE Nil

\* StreamModeMatchRelayed unless the label is not empty.
ModeAuthoritative(node) == "authoritative"
Mode(node) == IF node # NoLabel THEN "authoritative" ELSE "relayed"

\* PresenceStream{Mode, Subject, Label}: the streams the identifiers above address.
PresenceStreamRelayedOnly(matchID, node) == RelayedStream
PresenceStream(matchID, node) ==
    IF matchID = "r1" /\ node = NoLabel THEN RelayedStream
    ELSE IF matchID = "m1" /\ node = "n1" THEN "st1"
    ELSE "st2"

\* The parsed identifiers whose streams the tracker holds.
ParsedIds == { <<"r1", NoLabel>>, <<"m1", "n1">>, <<"m2", "n2">> }

\* The tracker's reads and writes.
StreamExists(stream) == tracker[stream] # {}
GetLocalBySessionIDStreamUserID(session, stream) ==
    { p \in tracker[stream] : /\ p.sessionID = session.sessionID
                              /\ p.userID = session.userID
                              /\ p.node = LocalNode }
ListByStream(stream) == tracker[stream]
Track(session, stream) == [tracker EXCEPT ![stream] = @ \cup {session}]
UntrackIn(t, session, stream) ==
    [t EXCEPT ![stream] =
        { p \in @ : ~(p.sessionID = session.sessionID /\ p.userID = session.userID) }]
Untrack(session, stream) == UntrackIn(tracker, session, stream)

\* What session.Send is handed.
ErrorReply(code) == [kind |-> "Error", code |-> code, presences |-> {}]
MatchReply(presences) == [kind |-> "Match", code |-> "none", presences |-> presences]
AckReply == [kind |-> "Ack", code |-> "none", presences |-> {}]

\* A handler of a session: where it is, the stream it works on, the identifier it
\* hands the registry and what it has sent to the session.
NoRequest == [op |-> "none", pc |-> "idle", matchID |-> "none", node |-> NoLabel,
              stream |-> "none", out |-> <<>>]
Done(op, out) == [NoRequest EXCEPT !.op = op, !.pc = "done", !.out = out]
At(op, pc, matchID, node) ==
    [NoRequest EXCEPT !.op = op, !.pc = pc, !.matchID = matchID, !.node = node,
                      !.stream = PresenceStream(matchID, node)]
Free(c) == req[c].pc \in {"idle", "done"}

\* A handler that dereferenced nil: it sent nothing, and the session's goroutine does
\* not go on to another message.
Panicked(op) == [NoRequest EXCEPT !.op = op, !.pc = "panicked"]

\* The registry variables a handler leaves alone while it makes no registry call.
registryRest == <<matches, handler, mailbox, current, pending, wlock, stop,
                  joinsStarted, resultCh, rm, kicked>>

\* matchCreate: matchID := uuid.NewV4(), an identifier nobody holds; the creator is
\* tracked on its relayed stream and sent the match with itself as the only presence.
matchCreate(c) ==
    /\ Free(c)
    /\ "r1" \notin issued
    /\ issued' = issued \cup {"r1"}
    /\ tracker' = Track(SessionOf(c), PresenceStream("r1", NoLabel))
    /\ req' = [req EXCEPT ![c] = Done("matchCreate", <<MatchReply({SessionOf(c)})>>)]
    /\ UNCHANGED <<lastSend, calls>>
    /\ UNCHANGED registryRest

\* matchJoin: "Relayed matches must 'exist' by already having some members."
MustExistNever(matchID, node) == FALSE
MustExist(matchID, node) ==
    Mode(node) = "relayed" /\ ~StreamExists(PresenceStream(matchID, node))

\* matchJoin from the parsed identifier on: the mode, the stream, the existence test.
matchJoinParsed(c, matchID, node) ==
    /\ Free(c)
    /\ IF MustExist(matchID, node)
       THEN req' = [req EXCEPT ![c] = Done("matchJoin", <<ErrorReply("MATCH_NOT_FOUND")>>)]
       ELSE req' = [req EXCEPT ![c] = At("matchJoin", "lookup", matchID, node)]
    /\ UNCHANGED <<tracker, lastSend, issued, calls>>
    /\ UNCHANGED registryRest

\* matchJoin: meta == nil, "The user is not yet part of the match, attempt to join."
NotYetPartAlways(session, stream) == TRUE
NotYetPart(session, stream) == GetLocalBySessionIDStreamUserID(session, stream) = {}

\* matchJoin: the local lookup.  A member goes on to the reply; another session asks
\* the registry when the match is authoritative and is tracked at once when not.
matchJoinLookup(c) ==
    /\ req[c].op = "matchJoin" /\ req[c].pc = "lookup"
    /\ IF ~NotYetPart(SessionOf(c), req[c].stream)
       THEN /\ req' = [req EXCEPT ![c].pc = "list"]
            /\ UNCHANGED calls
       ELSE IF Mode(req[c].node) = "authoritative"
            THEN /\ req' = [req EXCEPT ![c].pc = "calling"]
                 /\ calls' = [calls EXCEPT ![c] = NoCall]
            ELSE /\ req' = [req EXCEPT ![c].pc = "track"]
                 /\ UNCHANGED calls
    /\ UNCHANGED <<tracker, lastSend, issued>>
    /\ UNCHANGED registryRest

\* matchJoin: found, allow = p.matchRegistry.Join(matchID, node, ...)
matchJoinCall(c) ==
    /\ req[c].op = "matchJoin" /\ req[c].pc = "calling"
    /\ calls[c].pc = "idle"
    /\ Begin(c, "Join", req[c].matchID, req[c].node)

\* matchJoin: if !allow
AllowedAlways(res) == TRUE
Allowed(res) == res[2]

\* matchJoin: the registry has answered, or the match is relayed: the errors, or
\* p.tracker.Track(session.ID(), stream, session.UserID(), m)
matchJoinTrack(c) ==
    /\ req[c].op = "matchJoin"
    /\ \/ req[c].pc = "track"
       \/ req[c].pc = "calling" /\ calls[c].pc = "done"
    /\ LET res == IF req[c].pc = "track" THEN <<TRUE, TRUE>> ELSE calls[c].res
       IN  IF ~res[1]
           THEN /\ req' = [req EXCEPT ![c] =
                              Done("matchJoin", <<ErrorReply("MATCH_NOT_FOUND")>>)]
                /\ UNCHANGED tracker
           ELSE IF ~Allowed(res)
                THEN /\ req' = [req EXCEPT ![c] =
                                   Done("matchJoin", <<ErrorReply("MATCH_JOIN_REJECTED")>>)]
                     /\ UNCHANGED tracker
                ELSE /\ tracker' = Track(SessionOf(c), req[c].stream)
                     /\ req' = [req EXCEPT ![c].pc = "list"]
    /\ calls' = [calls EXCEPT ![c] = NoCall]
    /\ UNCHANGED <<lastSend, issued>>
    /\ UNCHANGED registryRest

\* matchJoin: ps := p.tracker.ListByStream(stream), and the match is sent.
matchJoinReply(c) ==
    /\ req[c].op = "matchJoin" /\ req[c].pc = "list"
    /\ req' = [req EXCEPT ![c] =
                  Done("matchJoin", <<MatchReply(ListByStream(req[c].stream))>>)]
    /\ UNCHANGED <<tracker, lastSend, issued, calls>>
    /\ UNCHANGED registryRest

\* matchLeave as it would be if it handed the leave to the registry's Leave.
matchLeaveForwards(c, envelope) ==
    /\ Free(c)
    /\ LET id == ParseMatchId(GetMatchLeave(envelope).matchId)
       IN  IF ~id.ok
           THEN /\ req' = [req EXCEPT ![c] = Done("matchLeave", <<ErrorReply("BAD_INPUT")>>)]
                /\ UNCHANGED <<tracker, calls>>
           ELSE /\ tracker' = Untrack(SessionOf(c), PresenceStream(id.matchID, id.node))
                /\ req' = [req EXCEPT ![c] = Done("matchLeave", <<AckReply>>)]
                /\ calls' = [calls EXCEPT ![c] =
                                IF OtherNode(id.node) \/ ~Lookup(id.matchID)
                                THEN Returned("Leave", "absent", NoResult)
                                ELSE Found("Leave", id.matchID)]
    /\ UNCHANGED <<lastSend, issued>>
    /\ UNCHANGED registryRest

\* matchLeave: the identifier is validated, the session untracked from the stream it
\* names and an empty envelope sent.
matchLeave(c, envelope) ==
    /\ Free(c)
    /\ LET id == ParseMatchId(GetMatchLeave(envelope).matchId)
       IN  IF ~id.ok
           THEN /\ req' = [req EXCEPT ![c] = Done("matchLeave", <<ErrorReply("BAD_INPUT")>>)]
                /\ UNCHANGED tracker
           ELSE /\ tracker' = Untrack(SessionOf(c), PresenceStream(id.matchID, id.node))
                /\ req' = [req EXCEPT ![c] = Done("matchLeave", <<AckReply>>)]
    /\ UNCHANGED <<lastSend, issued, calls>>
    /\ UNCHANGED registryRest

\* matchDataSend, authoritative: == nil, "User is not part of the match."
NotPartNever(session, stream) == FALSE
NotPart(session, stream) == GetLocalBySessionIDStreamUserID(session, stream) = {}

\* matchDataSend from the parsed identifier of an authoritative match on: the local
\* lookup, and for a member the call of the registry's SendData.
matchDataSendParsed(c, matchID, node) ==
    /\ Free(c)
    /\ Mode(node) = "authoritative"
    /\ IF NotPart(SessionOf(c), PresenceStream(matchID, node))
       THEN /\ req' = [req EXCEPT ![c] = Done("matchDataSend", <<>>)]
            /\ UNCHANGED calls
       ELSE /\ req' = [req EXCEPT ![c] = At("matchDataSend", "calling", matchID, node)]
            /\ calls' = [calls EXCEPT ![c] = NoCall]
    /\ UNCHANGED <<tracker, lastSend, issued>>
    /\ UNCHANGED registryRest

\* matchDataSend: p.matchRegistry.SendData(matchID, matchIDComponents[1], ...)
matchDataSendCall(c) ==
    /\ req[c].op = "matchDataSend" /\ req[c].pc = "calling"
    /\ calls[c].pc = "idle"
    /\ Begin(c, "SendData", req[c].matchID, req[c].node)

\* matchJoin, a MatchJoin envelope from the wire.  For a match identifier, "Validate the
\* match ID" splits envelope.GetMatchLeave().MatchId, the field of a message this
\* envelope does not hold; a token or no Id is answered BadInput.
matchJoin(c, envelope) ==
    /\ Free(c)
    /\ envelope.kind = "MatchJoin"
    /\ \/ /\ envelope.id = "MatchId"
          /\ GetMatchLeave(envelope) = Nil
          /\ req' = [req EXCEPT ![c] = Panicked("matchJoin")]
          /\ UNCHANGED <<tracker, lastSend, issued, calls>>
          /\ UNCHANGED registryRest
       \/ /\ envelope.id = "MatchId"
          /\ GetMatchLeave(envelope) # Nil
          /\ ~ParseMatchId(GetMatchLeave(envelope).matchId).ok
          /\ req' = [req EXCEPT ![c] = Done("matchJoin", <<ErrorReply("BAD_INPUT")>>)]
          /\ UNCHANGED <<tracker, lastSend, issued, calls>>
          /\ UNCHANGED registryRest
       \/ /\ envelope.id = "MatchId"
          /\ GetMatchLeave(envelope) # Nil
          /\ ParseMatchId(GetMatchLeave(envelope).matchId).ok
          /\ matchJoinParsed(c, ParseMatchId(GetMatchLeave(envelope).matchId).matchID,
                                ParseMatchId(GetMatchLeave(envelope).matchId).node)
       \/ /\ envelope.id # "MatchId"
          /\ req' = [req EXCEPT ![c] = Done("matchJoin", <<ErrorReply("BAD_INPUT")>>)]
          /\ UNCHANGED <<tracker, lastSend, issued, calls>>
          /\ UNCHANGED registryRest

\* matchDataSend, a MatchDataSend envelope from the wire.  "Validate the match ID"
\* splits envelope.GetMatchLeave().MatchId here too; an identifier that does not
\* validate is dropped without an answer.
matchDataSend(c, envelope) ==
    /\ Free(c)
    /\ envelope.kind = "MatchDataSend"
    /\ \/ /\ GetMatchLeave(envelope) = Nil
          /\ req' = [req EXCEPT ![c] = Panicked("matchDataSend")]
          /\ UNCHANGED <<tracker, lastSend, issued, calls>>
          /\ UNCHANGED registryRest
       \/ /\ GetMatchLeave(envelope) # Nil
          /\ ~ParseMatchId(GetMatchLeave(envelope).matchId).ok
          /\ req' = [req EXCEPT ![c] = Done("matchDataSend", <<>>)]
          /\ UNCHANGED <<tracker, lastSend, issued, calls>>
          /\ UNCHANGED registryRest
       \/ /\ GetMatchLeave(envelope) # Nil
          /\ ParseMatchId(GetMatchLeave(envelope).matchId).ok
          /\ LET id == ParseMatchId(GetMatchLeave(envelope).matchId)
             IN  IF Mode(id.node) = "authoritative"
                 THEN matchDataSendParsed(c, id.matchID, id.node)
                 ELSE matchDataSendRelayed(SessionOf(c), <<>>)

\* matchDataSend: SendData has returned, and so does the handler; nothing is sent.
matchDataSendDone(c) ==
    /\ req[c].op = "matchDataSend" /\ req[c].pc = "calling"
    /\ calls[c].pc = "done"
    /\ req' = [req EXCEPT ![c] = Done("matchDataSend", <<>>)]
    /\ calls' = [calls EXCEPT ![c] = NoCall]
    /\ UNCHANGED <<tracker, lastSend, issued>>
    /\ UNCHANGED registryRest

(***************************************************************************)
(* LocalMatchRegistry.Kick.                                                *)
(***************************************************************************)
\* Longest list of presences a Kick is handed.
MaxKick == 2

\* The Kick call: its arguments and what the stream held when it was made.
NoKick == [pc |-> "idle", stream |-> "none", presences |-> <<>>, found |-> {}]

\* if presence.Node != r.node { continue }
KickSkipsNone(presence) == FALSE
KickSkips(presence) == presence.node # LocalNode

\* for _, presence := range presences: the tracker after the loop over the list.
RECURSIVE KickLoop(_, _, _)
KickLoop(t, stream, presences) ==
    IF presences = <<>> THEN t
    ELSE KickLoop(IF KickSkips(Head(presences)) THEN t
                  ELSE UntrackIn(t, Head(presences), stream),
                  stream, Tail(presences))

\* Kick(stream, presences): called by a match handler to remove participants.
Kick(stream, presences) ==
    /\ tracker' = KickLoop(tracker, stream, presences)
    /\ kicked' = [pc |-> "done", stream |-> stream, presences |-> presences,
                  found |-> tracker[stream]]
    /\ UNCHANGED <<lastSend, req, issued>>
    /\ UNCHANGED registryVars

(***************************************************************************)
(* The specifications.                                                     *)
(***************************************************************************)
Init ==
    /\ tracker = [s \in Streams |-> {}]
    /\ lastSend = NoSend
    /\ matches = {}
    /\ handler = [id \in MatchIds |-> "none"]
    /\ mailbox = [id \in MatchIds |-> <<>>]
    /\ current = [id \in MatchIds |-> NoMsg]
    /\ pending = {}
    /\ wlock = FALSE
    /\ stop = [pc |-> "idle", found |-> {}]
    /\ calls = [c \in Callers |-> NoCall]
    /\ joinsStarted = 0
    /\ resultCh = [ch \in Channels |-> <<>>]
    /\ rm = NoRemove
    /\ req = [c \in Callers |-> NoRequest]
    /\ issued = {}
    /\ kicked = NoKick

NextRelay ==
    \/ \E p \in Presences : TrackRelayed(p)
    \/ \E p \in Presences : UntrackRelayed(p)
    \/ \E session \in Presences, incoming \in SeqsUpTo(WireFilters, MaxFilters) :
          matchDataSendRelayed(session, incoming)
    \/ matchDataSendReturn

SpecRelay == Init /\ [][NextRelay]_vars

\* The join bridge: two callers join the matches concurrently.
Next ==
    \/ \E id \in MatchIds : NewMatchCreate(id)
    \/ \E id \in MatchIds : NewMatchInsert(id)
    \/ \E c \in Callers, id \in MatchIds, node \in Nodes : Begin(c, "Join", id, node)
    \/ \E c \in Callers : JoinEnqueue(c)
    \/ \E c \in Callers : JoinTimeout(c)
    \/ \E c \in Callers : JoinReceive(c)
    \/ \E id \in MatchIds : ActorDequeue(id)
    \/ \E id \in MatchIds : ActorFinish(id)
    \/ StopBegin
    \/ \E id \in MatchIds : StopStep(id)
    \/ StopEnd

Spec == Init /\ [][Next]_vars

\* Every registry call, on either node label, against NewMatch and Stop: c1 joins
\* while c2 sends Leave and SendData.  The actors are not scheduled here: what a call
\* puts in a mailbox stays until Close discards it.
Joiner == "c1"
Notifier == "c2"

NextOps ==
    \/ \E id \in MatchIds : NewMatchCreate(id)
    \/ \E id \in MatchIds : NewMatchInsert(id)
    \/ \E id \in MatchIds, node \in Nodes : Begin(Joiner, "Join", id, node)
    \/ \E op \in {"Leave", "SendData"}, id \in MatchIds, node \in Nodes :
          Begin(Notifier, op, id, node)
    \/ JoinEnqueue(Joiner)
    \/ JoinTimeout(Joiner)
    \/ NotifyEnqueue(Notifier)
    \/ StopBegin
    \/ \E id \in MatchIds : StopStep(id)
    \/ StopEnd

SpecOps == Init /\ [][NextOps]_vars

NextDir ==
    \/ \E id \in MatchIds : NewMatchCreate(id)
    \/ \E id \in MatchIds : NewMatchInsert(id)
    \/ \E id \in MatchIds, stream \in AuthStreams : RemoveMatchDelete(id, stream)
    \/ RemoveMatchUntrack
    \/ \E stream \in AuthStreams, p \in Presences : TrackAuth(stream, p)

SpecDir == Init /\ [][NextDir]_vars

\* The life of an actor: one caller joins and one sends Leave and SendData, to the
\* match of this node and to an identifier that was never created, while the actor
\* works through its mailbox and RemoveMatch takes identifiers out of the directory.
ActorMatch == "m1"
ActorStream == "st1"

NextActor ==
    \/ NewMatchCreate(ActorMatch)
    \/ NewMatchInsert(ActorMatch)
    \/ \E id \in MatchIds : Begin(Joiner, "Join", id, LocalNode)
    \/ \E op \in {"Leave", "SendData"}, id \in MatchIds : Begin(Notifier, op, id, LocalNode)
    \/ JoinEnqueue(Joiner)
    \/ JoinTimeout(Joiner)
    \/ JoinReceive(Joiner)
    \/ NotifyEnqueue(Notifier)
    \/ ActorDequeue(ActorMatch)
    \/ ActorFinish(ActorMatch)
    \/ \E id \in MatchIds : RemoveMatchDelete(id, ActorStream)
    \/ RemoveMatchUntrack

SpecActor == Init /\ [][NextActor]_vars

\* The parsed identifiers of authoritative matches: m1 of this node, m2 of another.
AuthIds == { id \in ParsedIds : Mode(id[2]) = "authoritative" }

\* Membership: matchCreate, matchJoin from the parsed identifier on and matchLeave, for
\* two sessions of this node, over a relayed match, the authoritative match m1 of this
\* node with the registry's Join bridge and its actor, and a match of another node.
NextJoin ==
    \/ NewMatchCreate(ActorMatch)
    \/ NewMatchInsert(ActorMatch)
    \/ \E c \in Callers : matchCreate(c)
    \/ \E c \in Callers, w \in WireIds : matchLeave(c, Envelope("MatchLeave", w))
    \/ \E c \in Callers, id \in ParsedIds : matchJoinParsed(c, id[1], id[2])
    \/ \E c \in Callers : matchJoinLookup(c)
    \/ \E c \in Callers : matchJoinCall(c)
    \/ \E c \in Callers : JoinEnqueue(c)
    \/ \E c \in Callers : JoinTimeout(c)
    \/ \E c \in Callers : JoinReceive(c)
    \/ \E c \in Callers : matchJoinTrack(c)
    \/ \E c \in Callers : matchJoinReply(c)
    \/ ActorDequeue(ActorMatch)
    \/ ActorFinish(ActorMatch)

SpecJoin == Init /\ [][NextJoin]_vars

\* matchDataSend to authoritative matches from the parsed identifier on: the sessions
\* are tracked on the matches' streams and leave them, m1 is registered and its actor
\* works through its mailbox.
NextData ==
    \/ NewMatchCreate(ActorMatch)
    \/ NewMatchInsert(ActorMatch)
    \/ \E stream \in AuthStreams, p \in Presences : TrackAuth(stream, p)
    \/ \E c \in Callers, w \in WireIds : matchLeave(c, Envelope("MatchLeave", w))
    \/ \E c \in Callers, id \in AuthIds : matchDataSendParsed(c, id[1], id[2])
    \/ \E c \in Callers : matchDataSendCall(c)
    \/ \E c \in Callers : NotifyEnqueue(c)
    \/ \E c \in Callers : matchDataSendDone(c)
    \/ ActorDequeue(ActorMatch)
    \/ ActorFinish(ActorMatch)

SpecData == Init /\ [][NextData]_vars

\* The handlers as the pipeline runs them, on envelopes from the wire with well-formed
\* and malformed match identifiers, for two sessions of this node.
NextWire ==
    \/ \E c \in Callers : matchCreate(c)
    \/ \E c \in Callers, envelope \in JoinEnvelopes : matchJoin(c, envelope)
    \/ \E c \in Callers, w \in WireIds : matchLeave(c, Envelope("MatchLeave", w))
    \/ \E c \in Callers, w \in WireIds : matchDataSend(c, Envelope("MatchDataSend", w))

SpecWire == Init /\ [][NextWire]_vars

\* A relayed match: both sessions create, join and leave it and send data to it, while
\* m1 is registered and one of the sessions also joins m1, whose actor is not scheduled:
\* its join attempts stay in the mailbox and its Joins end on the ticker.
RelayedWire == <<"r1", ":">>

NextRelayed ==
    \/ NewMatchCreate(ActorMatch)
    \/ NewMatchInsert(ActorMatch)
    \/ \E c \in Callers : matchCreate(c)
    \/ \E c \in Callers : matchLeave(c, Envelope("MatchLeave", RelayedWire))
    \/ \E c \in Callers : matchJoinParsed(c, "r1", NoLabel)
    \/ matchJoinParsed(Notifier, ActorMatch, LocalNode)
    \/ \E c \in Callers : matchJoinLookup(c)
    \/ \E c \in Callers : matchJoinCall(c)
    \/ \E c \in Callers : JoinEnqueue(c)
    \/ \E c \in Callers : JoinTimeout(c)
    \/ \E c \in Callers : matchJoinTrack(c)
    \/ \E c \in Callers : matchJoinReply(c)
    \/ \E c \in Callers : matchDataSendRelayed(SessionOf(c), <<>>)
    \/ matchDataSendReturn

SpecRelayed == Init /\ [][NextRelayed]_vars

\* The mutex: two callers join and wait, with no actor to answer them, while NewMatch,
\* RemoveMatch and Stop take the write lock.
NextLock ==
    \/ \E id \in MatchIds : NewMatchCreate(id)
    \/ \E id \in MatchIds : NewMatchInsert(id)
    \/ \E c \in Callers, id \in MatchIds : Begin(c, "Join", id, LocalNode)
    \/ \E c \in Callers : JoinEnqueue(c)
    \/ \E c \in Callers : JoinTimeout(c)
    \/ \E id \in MatchIds : RemoveMatchDelete(id, ActorStream)
    \/ RemoveMatchUntrack
    \/ StopBegin
    \/ \E id \in MatchIds : StopStep(id)
    \/ StopEnd

SpecLock == Init /\ [][NextLock]_vars

\* The life of a directory entry: NewMatch starts the actor and then inserts it, and a
\* running actor may end its match at any time, while sessions are tracked on the streams.
NextLife ==
    \/ \E id \in MatchIds : NewMatchCreate(id)
    \/ \E id \in MatchIds : NewMatchInsert(id)
    \/ \E id \in MatchIds : ActorRemoveMatch(id)
    \/ RemoveMatchUntrack
    \/ \E id \in MatchIds, c \in Callers : TrackAuth(StreamOf(id), SessionOf(c))

SpecLife == Init /\ [][NextLife]_vars

\* Joins against removal: two sessions join m1 through the registry and its actor, and
\* the actor may end its match at any time.
NextRemoveJoin ==
    \/ NewMatchCreate(ActorMatch)
    \/ NewMatchInsert(ActorMatch)
    \/ \E c \in Callers : matchJoinParsed(c, ActorMatch, LocalNode)
    \/ \E c \in Callers : matchJoinLookup(c)
    \/ \E c \in Callers : matchJoinCall(c)
    \/ \E c \in Callers : JoinEnqueue(c)
    \/ \E c \in Callers : JoinTimeout(c)
    \/ \E c \in Callers : JoinReceive(c)
    \/ \E c \in Callers : matchJoinTrack(c)
    \/ \E c \in Callers : matchJoinReply(c)
    \/ ActorDequeue(ActorMatch)
    \/ ActorFinish(ActorMatch)
    \/ ActorRemoveMatch(ActorMatch)
    \/ RemoveMatchUntrack

SpecRemoveJoin == Init /\ [][NextRemoveJoin]_vars

\* Kick against the stream of m1, whose members are of both nodes, and against the empty
\* stream of another match, with m1 registered and Leave calls filling its mailbox.
NextKick ==
    \/ NewMatchCreate(ActorMatch)
    \/ NewMatchInsert(ActorMatch)
    \/ \E p \in Presences : TrackAuth(ActorStream, p)
    \/ Begin(Notifier, "Leave", ActorMatch, LocalNode)
    \/ NotifyEnqueue(Notifier)
    \/ \E stream \in AuthStreams, presences \in SeqsUpTo(Presences, MaxKick) :
          Kick(stream, presences)

SpecKick == Init /\ [][NextKick]_vars

\* The join bridge where the ticker of a waiting Join fires and a caller that has
\* found its match goes on to the enqueue; the actors may never answer.
FairSpec ==
    /\ Spec
    /\ \A c \in Callers : WF_vars(JoinTimeout(c))
    /\ \A c \in Callers : WF_vars(JoinEnqueue(c))

(***************************************************************************)
(* Relayed data distribution: the recipients of a MatchDataSend.           *)
(***************************************************************************)
Key(p) == <<p.userID, p.sessionID>>
Range(f) == { f[i] : i \in DOMAIN f }
WellFormed(incoming) ==
    \A i \in DOMAIN incoming :
        incoming[i].userID # BadUUID /\ incoming[i].sessionID # BadUUID

\* The membership the last send listed, the sender's own entry left out.
Others == { p \in Range(lastSend.ps) : Key(p) # Key(lastSend.session) }
SenderIsMember == \E p \in Range(lastSend.ps) : Key(p) = Key(lastSend.session)

\* The recipients the membership, the sender and the filter list call for.
Expected ==
    IF lastSend.incoming = <<>> THEN Others
    ELSE { p \in Others : \E i \in DOMAIN lastSend.incoming :
                              Key(lastSend.incoming[i]) = Key(p) }

\* C1: a member's relayed send with a well-formed filter list reaches the router
\* exactly once, with exactly the other members (those the filters name, when there
\* are filters), each once; when that set is empty the router is not called.
C1_RecipientSet ==
    (lastSend.pc = "sent" /\ SenderIsMember /\ WellFormed(lastSend.incoming)) =>
        IF Expected = {}
        THEN lastSend.routed = <<>>
        ELSE /\ Len(lastSend.routed) = 1
             /\ Range(lastSend.routed[1]) = Expected
             /\ Len(lastSend.routed[1]) = Cardinality(Expected)

\* Three members, the sender first in the list, one filter naming another member:
\* the router got that member alone.
C1_Witness ==
    /\ lastSend.pc = "sent"
    /\ Len(lastSend.ps) = 3
    /\ Key(lastSend.ps[1]) = Key(lastSend.session)
    /\ Len(lastSend.incoming) = 1
    /\ Len(lastSend.routed) = 1
    /\ Len(lastSend.routed[1]) = 1
    /\ Key(lastSend.routed[1][1]) = Key(lastSend.incoming[1])

\* C2: no list handed to the router holds the sender's own (userID, sessionID).
C2_NoEcho ==
    lastSend.pc = "sent" =>
        \A k \in DOMAIN lastSend.routed : \A i \in DOMAIN lastSend.routed[k] :
            Key(lastSend.routed[k][i]) # Key(lastSend.session)

\* The sender is in the middle of three members and the filters name the sender
\* itself and another member; the router was called.
C2_Witness ==
    /\ lastSend.pc = "sent"
    /\ Len(lastSend.ps) = 3
    /\ Key(lastSend.ps[2]) = Key(lastSend.session)
    /\ \E i \in DOMAIN lastSend.incoming : Key(lastSend.incoming[i]) = Key(lastSend.session)
    /\ Len(lastSend.routed) = 1

\* C3: a sender that is not in the stream's membership causes no router call,
\* whatever the filters are.
C3_NonMemberDropped ==
    (lastSend.pc = "sent" /\ ~SenderIsMember) => lastSend.routed = <<>>

\* The stream has two members, the sender is not one of them and the filters name
\* both members: nothing was routed.
C3_Witness ==
    /\ lastSend.pc = "sent"
    /\ Len(lastSend.ps) = 2
    /\ ~SenderIsMember
    /\ Len(lastSend.incoming) = 2
    /\ \A p \in Range(lastSend.ps) :
          \E i \in DOMAIN lastSend.incoming : Key(lastSend.incoming[i]) = Key(p)
    /\ lastSend.routed = <<>>

(***************************************************************************)
(* The join bridge.                                                        *)
(***************************************************************************)
\* The step in which caller c's Join takes the reply off its channel.
TakesReply(c) ==
    /\ calls[c].pc = "waiting"
    /\ calls'[c].pc = "done"
    /\ calls'[c].via = "reply"

\* Every value in a reply channel was decided for the attempt that carries that channel.
RepliesAreOwn ==
    \A ch \in Channels : resultCh[ch] # <<>> => Head(resultCh[ch]).for = ch

\* C4: a Join that receives the actor's reply returns (true, d), d the decision the
\* join callback made for this caller's own attempt, never the decision on another one.
C4_JoinReturnsOwnDecision ==
    /\ []RepliesAreOwn
    /\ [][\A c \in Callers :
            TakesReply(c) =>
               /\ Head(resultCh[calls[c].ch]).for = calls[c].ch
               /\ calls'[c].res = <<TRUE, Head(resultCh[calls[c].ch]).d>>]_vars

\* Two attempts were in flight on the one actor there is; it accepted c1 and refused c2,
\* and each Join returned its own answer.
C4_Witness ==
    /\ handler["m2"] = "none"
    /\ calls["c1"] = Returned("Join", "reply", <<TRUE, TRUE>>)
    /\ calls["c2"] = Returned("Join", "reply", <<TRUE, FALSE>>)
    /\ joinsStarted = 2

\* The step in which the ticker ends caller c's wait.
TimesOut(c) ==
    /\ calls[c].pc = "waiting"
    /\ calls'[c].pc = "done"
    /\ calls'[c].via = "timeout"

\* C5: every Join that found its match returns; one the actor never answers returns
\* (true, false) when the ticker fires.
C5_JoinReturns ==
    /\ \A c \in Callers : (calls[c].pc \in {"found", "waiting"}) ~> (calls[c].pc = "done")
    /\ [][\A c \in Callers : TimesOut(c) => calls'[c].res = <<TRUE, FALSE>>]_vars

\* The only attempt ever enqueued was discarded by Close, unanswered, and its Join
\* returned on the ticker.
C5_Witness ==
    /\ joinsStarted = 1
    /\ resultCh[1] = <<>>
    /\ handler["m1"] = "closed"
    /\ current["m1"] = NoMsg
    /\ handler["m2"] = "none"
    /\ calls["c1"] = Returned("Join", "timeout", <<TRUE, FALSE>>)

\* The handler of c's match refuses an enqueue: it is closed or its queue is full.
Refuses(id) == handler[id] # "running" \/ Len(mailbox[id]) >= QueueSize

\* C6: a Join whose match is registered and whose enqueue is refused returns
\* (true, false) in that step: it never waits, and the mailboxes are as they were.
C6_RefusedEnqueue ==
    [][\A c \in Callers :
         (/\ calls[c].op = "Join"
          /\ calls[c].pc = "found"
          /\ calls'[c] # calls[c]
          /\ Refuses(calls[c].id))
         => /\ calls'[c].pc = "done"
            /\ calls'[c].res = <<TRUE, FALSE>>
            /\ mailbox' = mailbox
            /\ resultCh' = resultCh
            /\ joinsStarted' = joinsStarted]_vars

\* c1's Join was refused by the full queue of the running actor m1.
C6_Witness ==
    /\ calls["c1"] = Returned("Join", "full", <<TRUE, FALSE>>)
    /\ handler["m1"] = "running"
    /\ handler["m2"] = "none"
    /\ Len(mailbox["m1"]) = QueueSize
    /\ stop.pc = "idle"

\* C7: a Join on the local node for an identifier the directory does not hold returns
\* (false, false) and changes neither a mailbox nor the directory.
C7_JoinUnknown ==
    [][\A c \in Callers, id \in MatchIds :
         (id \notin matches /\ Begin(c, "Join", id, LocalNode))
         => /\ calls'[c] = Returned("Join", "absent", <<FALSE, FALSE>>)
            /\ mailbox' = mailbox
            /\ matches' = matches
            /\ handler' = handler]_vars

\* A Join found nothing while the handler of m1 was running but not yet inserted.
C7_Witness ==
    /\ calls["c1"] = Returned("Join", "absent", <<FALSE, FALSE>>)
    /\ handler["m1"] = "running"
    /\ "m1" \in pending
    /\ handler["m2"] = "none"

(***************************************************************************)
(* Node affinity and Stop.                                                 *)
(***************************************************************************)
OtherLabel == "n2"

\* C8: a Join, Leave or SendData addressed to another node label returns at once,
\* Join with (false, false), and leaves the directory, the handlers and every mailbox
\* as they were, whether or not the identifier is registered here.
C8_NodeAffinity ==
    [][\A c \in Callers, op \in {"Join", "Leave", "SendData"}, id \in MatchIds :
         Begin(c, op, id, OtherLabel)
         => /\ calls'[c] = Returned(op, "node", Ret(op, <<FALSE, FALSE>>))
            /\ matches' = matches
            /\ mailbox' = mailbox
            /\ handler' = handler
            /\ pending' = pending]_vars

\* Both matches are registered and running with room in their queues, and a Join and
\* a SendData addressed to the other node have returned.
C8_Witness ==
    /\ matches = MatchIds
    /\ \A id \in MatchIds : handler[id] = "running" /\ mailbox[id] = <<>>
    /\ calls["c1"] = Returned("Join", "node", <<FALSE, FALSE>>)
    /\ calls["c2"] = Returned("SendData", "node", NoResult)

\* Stop is in its loop and has removed some entries, not all.
PartlyCleared == stop.pc = "clearing" /\ matches # stop.found /\ matches # {}

\* The step in which caller c reads the directory.
Looks(c) ==
    /\ calls[c].pc \in {"idle", "done"}
    /\ calls'[c] # calls[c]
    /\ calls'[c].via # "node"

\* Once Stop has returned, what it found registered is closed and gone.
StoppedClosed ==
    stop.pc = "done" =>
        \A id \in stop.found : handler[id] = "closed" /\ id \notin matches
                               /\ mailbox[id] = <<>>

\* C9: Stop returns with the directory empty and every actor it found registered
\* closed; from then on a Join for such an identifier returns (false, false) and a
\* Leave or SendData enqueues nothing; no lookup reads a partly cleared directory.
C9_Stop ==
    /\ []StoppedClosed
    /\ [][(stop.pc = "clearing" /\ stop'.pc = "done") => matches' = {}]_vars
    /\ [][\A c \in Callers, op \in {"Join", "Leave", "SendData"}, id \in MatchIds :
            (stop.pc = "done" /\ id \in stop.found /\ Begin(c, op, id, LocalNode))
            => /\ calls'[c] = Returned(op, "absent", Ret(op, <<FALSE, FALSE>>))
               /\ mailbox' = mailbox]_vars
    /\ [][\A c \in Callers : Looks(c) => ~PartlyCleared]_vars

\* Stop found both matches registered and has returned; a Join and a Leave for them
\* then found nothing.
C9_Witness ==
    /\ stop.pc = "done"
    /\ stop.found = MatchIds
    /\ calls["c1"] = Returned("Join", "absent", <<FALSE, FALSE>>)
    /\ calls["c2"] = Returned("Leave", "absent", NoResult)

(***************************************************************************)
(* RemoveMatch.                                                            *)
(***************************************************************************)
\* C10: RemoveMatch(id, stream) takes id out of the directory and leaves every other
\* entry, then empties the stream of the presences of every node and leaves every
\* other stream; it does both whether or not id was registered, and on a directory
\* without id and an empty stream it changes nothing.
C10_RemoveMatch ==
    /\ [][\A id \in MatchIds, stream \in AuthStreams :
            RemoveMatchDelete(id, stream)
            => /\ id \notin matches'
               /\ \A o \in MatchIds \ {id} : (o \in matches') <=> (o \in matches)
               /\ rm'.pc = "deleted"
               /\ (id \notin matches => matches' = matches)]_vars
    /\ [][RemoveMatchUntrack
            => /\ tracker'[rm.stream] = {}
               /\ \A o \in Streams \ {rm.stream} : tracker'[o] = tracker[o]
               /\ matches' = matches
               /\ (tracker[rm.stream] = {} => tracker' = tracker)]_vars
    /\ [](rm.pc = "deleted" => ENABLED RemoveMatchUntrack)

\* A RemoveMatch for an identifier that was not registered has returned; it found
\* presences of both nodes on the stream, and the stream is empty.
C10_Witness ==
    /\ rm.pc = "done"
    /\ ~rm.wasIn
    /\ { p.node : p \in rm.tracked } = Nodes
    /\ tracker[rm.stream] = {}
    /\ matches # {}

(***************************************************************************)
(* The actors: RemoveMatch, the mailbox order, one message at a time.      *)
(***************************************************************************)
\* The step is one of RemoveMatch's two.
RemoveMatchSteps == rm' # rm

\* C11 as the specification states it: once RemoveMatch has returned for a match that
\* was registered, its actor is closed and its mailbox is empty.
C11_RemoveMatchCloses ==
    (rm.pc = "done" /\ rm.wasIn) =>
        /\ handler[rm.id] = "closed"
        /\ mailbox[rm.id] = <<>>

\* C11, amended: RemoveMatch takes the match out of the directory and leaves its actor
\* alone: neither step changes a handler's state, a mailbox or the message an actor is
\* processing, and a running actor whose match was removed still takes the next
\* message of its mailbox.
C11_RemoveMatchKeepsActor ==
    /\ [][RemoveMatchSteps =>
            /\ handler' = handler
            /\ mailbox' = mailbox
            /\ current' = current]_vars
    /\ [](\A id \in MatchIds :
            (/\ rm.pc = "done" /\ rm.id = id /\ id \notin matches
             /\ handler[id] = "running" /\ mailbox[id] # <<>> /\ current[id] = NoMsg)
            => ENABLED ActorDequeue(id))

\* RemoveMatch has returned for the registered match m1, whose actor is running and
\* is processing a message with its mailbox full.
C11_Witness ==
    /\ rm.pc = "done"
    /\ rm.id = "m1"
    /\ rm.wasIn
    /\ "m1" \notin matches
    /\ handler["m1"] = "running"
    /\ current["m1"] # NoMsg
    /\ Len(mailbox["m1"]) = QueueSize

\* Every message a mailbox can hold.
Messages == {LeaveMsg, MatchDataMessage} \cup { JoinAttempt(ch) : ch \in Channels }

\* In this step the mailbox of id changes as a first-in first-out queue does: a producer
\* puts one message at the back, or the actor takes the message at the front.
QueueStep(id) ==
    \/ mailbox'[id] = mailbox[id]
    \/ /\ \E msg \in Messages : mailbox'[id] = Append(mailbox[id], msg)
       /\ current'[id] = current[id]
    \/ /\ mailbox[id] # <<>>
       /\ mailbox'[id] = Tail(mailbox[id])
       /\ current'[id] = Head(mailbox[id])

\* Reply channels are numbered in the order of the accepted enqueues: the join attempts
\* of a mailbox lie in that order, behind the one being processed.
JoinAttemptsInArrivalOrder(id) ==
    LET q == mailbox[id]
    IN  /\ \A i, j \in DOMAIN q :
              (i < j /\ q[i].kind = "JoinAttempt" /\ q[j].kind = "JoinAttempt")
              => q[i].ch < q[j].ch
        /\ current[id].kind = "JoinAttempt" =>
              \A i \in DOMAIN q : q[i].kind = "JoinAttempt" => current[id].ch < q[i].ch

\* C12: the messages accepted into a mailbox are taken by the actor in the order of
\* their enqueue, whatever their kind and whichever caller enqueued them.
C12_MailboxOrder ==
    /\ [][\A id \in MatchIds : QueueStep(id)]_vars
    /\ [](\A id \in MatchIds : JoinAttemptsInArrivalOrder(id))

\* The actor is processing the first join attempt; behind it wait a Leave of the other
\* caller and the second join attempt.
C12_Witness ==
    /\ current[ActorMatch] = JoinAttempt(1)
    /\ mailbox[ActorMatch] = <<LeaveMsg, JoinAttempt(2)>>

\* C13: an actor processes one message at a time: while a callback runs, no other
\* message of that actor starts, and the producers' calls never run a callback.
C13_OneAtATime ==
    /\ [][\A id \in MatchIds :
            current[id] # NoMsg => current'[id] \in {current[id], NoMsg}]_vars
    /\ [][calls' # calls => current' = current]_vars

\* A callback of the actor is running while both producers are about to enqueue on
\* it and a further message waits.
C13_Witness ==
    /\ current[ActorMatch] # NoMsg
    /\ mailbox[ActorMatch] # <<>>
    /\ Head(mailbox[ActorMatch]) # current[ActorMatch]
    /\ \A c \in Callers : calls[c].pc = "found" /\ calls[c].id = ActorMatch

\* The message a Leave or SendData call carries.
NotifyMessage(op) == IF op = "Leave" THEN LeaveMsg ELSE MatchDataMessage

\* The messages of the actor of id: in the mailbox or being processed.
InFlight(id) == Len(mailbox[id]) + (IF current[id] = NoMsg THEN 0 ELSE 1)

\* The step in which caller c's Leave or SendData reaches the enqueue.
Notifies(c) ==
    /\ calls[c].op \in {"Leave", "SendData"}
    /\ calls[c].pc = "found"
    /\ calls'[c] # calls[c]

\* C14: a Leave or SendData puts at most one message in the mailbox of its target and
\* in no other, never waits for room, and returns nothing; for an unknown identifier or
\* a full mailbox it returns with mailboxes and directory as they were; the actor takes
\* a message out of the mailbox when it processes it, so it processes it once.
C14_AtMostOnce ==
    /\ [][\A c \in Callers :
            Notifies(c) =>
               LET id == calls[c].id
               IN  /\ calls'[c].pc = "done"
                   /\ calls'[c].res = NoResult
                   /\ \A o \in MatchIds \ {id} : mailbox'[o] = mailbox[o]
                   /\ IF Refuses(id)
                      THEN mailbox' = mailbox
                      ELSE mailbox'[id] = Append(mailbox[id], NotifyMessage(calls[c].op))
                   /\ matches' = matches
                   /\ handler' = handler
                   /\ current' = current]_vars
    /\ [][\A c \in Callers, op \in {"Leave", "SendData"}, id \in MatchIds :
            (id \notin matches /\ Begin(c, op, id, LocalNode))
            => /\ calls'[c] = Returned(op, "absent", NoResult)
               /\ mailbox' = mailbox
               /\ matches' = matches]_vars
    /\ [](calls[Notifier].pc = "found" => ENABLED NotifyEnqueue(Notifier))
    /\ [][\A id \in MatchIds :
            IF \E c \in Callers : Notifies(c) /\ calls[c].id = id /\ ~Refuses(id)
            THEN InFlight(id)' = InFlight(id) + 1
            ELSE InFlight(id)' <= InFlight(id) \/ calls' # calls]_vars

\* A SendData found the mailbox of the running actor full, an earlier SendData among
\* the messages in it, and returned.
C14_Witness ==
    /\ calls[Notifier] = Returned("SendData", "full", NoResult)
    /\ handler[ActorMatch] = "running"
    /\ Len(mailbox[ActorMatch]) = QueueSize
    /\ MatchDataMessage \in Range(mailbox[ActorMatch])

(***************************************************************************)
(* Membership: matchJoin, matchCreate, matchLeave.                         *)
(***************************************************************************)
\* Session c is tracked on the stream.
Member(c, stream) == SessionOf(c) \in tracker[stream]

\* The step in which c's matchJoin makes its local lookup.
LooksUp(c) ==
    /\ req[c].op = "matchJoin"
    /\ req[c].pc = "lookup"
    /\ req'[c] # req[c]

\* The step in which c's matchJoin sends the match.
SendsMatch(c) ==
    /\ req[c].op = "matchJoin"
    /\ req[c].pc = "list"
    /\ req'[c] # req[c]

\* The step makes no registry call and hands no actor a message.
RegistryUntouched ==
    /\ calls' = calls
    /\ mailbox' = mailbox
    /\ joinsStarted' = joinsStarted
    /\ matches' = matches

\* C15: a matchJoin of a session already tracked on the stream goes from the lookup
\* straight to the reply: the session is sent the match with the stream's membership,
\* the registry's Join is not called, no actor gets a join attempt and the membership
\* stays as it is.
C15_Rejoin ==
    /\ [][\A c \in Callers :
            (LooksUp(c) /\ Member(c, req[c].stream))
            => /\ req'[c].pc = "list"
               /\ tracker' = tracker
               /\ RegistryUntouched]_vars
    /\ [][\A c \in Callers :
            SendsMatch(c)
            => /\ req'[c] = Done("matchJoin", <<MatchReply(tracker[req[c].stream])>>)
               /\ tracker' = tracker
               /\ RegistryUntouched]_vars
    /\ [][\A c \in Callers :
            (req'[c].pc = "calling" /\ req[c].pc # "calling")
            => ~Member(c, req'[c].stream)]_vars

\* c1 created the relayed match and is its only member, c2 never sent anything, and
\* c1's matchJoin for the match it is in was answered with the membership.
C15_Witness ==
    /\ "r1" \in issued
    /\ tracker[RelayedStream] = {SessionOf("c1")}
    /\ req["c2"] = NoRequest
    /\ req["c1"] = Done("matchJoin", <<MatchReply({SessionOf("c1")})>>)

\* The step in which c's matchJoin reads what the registry's Join returned.
Answers(c) ==
    /\ req[c].op = "matchJoin"
    /\ req[c].pc = "calling"
    /\ calls[c].pc = "done"
    /\ req'[c] # req[c]

\* C16: a session becomes tracked on the stream of an authoritative match only in the
\* step in which its matchJoin reads (true, true) from the registry's Join; (false, _)
\* is answered with MatchNotFound and (true, false) with MatchJoinRejected, and these
\* two leave the membership as it is.
C16_JoinVerdict ==
    /\ [][\A c \in Callers :
            Answers(c) =>
               LET res == calls[c].res
               IN  /\ res = <<TRUE, TRUE>> =>
                          /\ tracker' = [tracker EXCEPT ![req[c].stream] =
                                             @ \cup {SessionOf(c)}]
                          /\ req'[c].pc = "list"
                   /\ ~res[1] =>
                          /\ req'[c] = Done("matchJoin", <<ErrorReply("MATCH_NOT_FOUND")>>)
                          /\ tracker' = tracker
                   /\ res = <<TRUE, FALSE>> =>
                          /\ req'[c] = Done("matchJoin",
                                            <<ErrorReply("MATCH_JOIN_REJECTED")>>)
                          /\ tracker' = tracker]_vars
    /\ [][\A c \in Callers, stream \in AuthStreams :
            (~Member(c, stream) /\ Member(c, stream)')
            => /\ Answers(c)
               /\ req[c].stream = stream
               /\ calls[c].res = <<TRUE, TRUE>>]_vars

\* The actor of m1 accepted c1, which is tracked and was sent the match, and c2's
\* Join ended on the ticker: c2 was answered MatchJoinRejected and is not tracked.
C16_Witness ==
    /\ tracker["st1"] = {SessionOf("c1")}
    /\ req["c1"] = Done("matchJoin", <<MatchReply({SessionOf("c1")})>>)
    /\ req["c2"] = Done("matchJoin", <<ErrorReply("MATCH_JOIN_REJECTED")>>)
    /\ joinsStarted = 2
    /\ mailbox["m1"] = <<JoinAttempt(2)>>

\* The step is one of c's matchJoin on the relayed stream.
RelayedJoinStep(c) ==
    /\ req[c].op = "matchJoin"
    /\ req[c].stream = RelayedStream
    /\ req'[c] # req[c]

\* C17: matchCreate leaves the creator as the only presence of the relayed stream; a
\* matchJoin that finds a presence on the stream goes on, asks no actor, tracks a
\* session that is not yet a member and sends the match; one that finds the stream
\* empty is answered MatchNotFound and tracks nothing.
C17_RelayedExistence ==
    /\ [][\A c \in Callers :
            matchCreate(c)
            => /\ tracker'[RelayedStream] = {SessionOf(c)}
               /\ req'[c].out = <<MatchReply({SessionOf(c)})>>
               /\ RegistryUntouched]_vars
    /\ [][\A c \in Callers :
            matchJoinParsed(c, "r1", NoLabel)
            => IF tracker[RelayedStream] = {}
               THEN /\ req'[c] = Done("matchJoin", <<ErrorReply("MATCH_NOT_FOUND")>>)
                    /\ tracker' = tracker
               ELSE /\ req'[c].pc = "lookup"
                    /\ req'[c].stream = RelayedStream]_vars
    /\ [][\A c \in Callers :
            RelayedJoinStep(c)
            => /\ RegistryUntouched
               /\ req'[c].pc \in {"track", "list", "done"}
               /\ req[c].pc = "track" =>
                     /\ tracker'[RelayedStream] = tracker[RelayedStream] \cup {SessionOf(c)}
                     /\ req'[c].pc = "list"
               /\ req[c].pc = "list" =>
                     req'[c].out = <<MatchReply(tracker[RelayedStream])>>]_vars

\* The relayed match was created and its last member has left; c1's matchJoin for it
\* was then answered MatchNotFound.
C17_Witness ==
    /\ "r1" \in issued
    /\ tracker[RelayedStream] = {}
    /\ req["c2"] = Done("matchLeave", <<AckReply>>)
    /\ req["c1"] = Done("matchJoin", <<ErrorReply("MATCH_NOT_FOUND")>>)
    /\ handler["m1"] = "none"

\* The well-formed identifiers a matchLeave may carry and the stream each names.
LeaveTargets ==
    { [wire |-> <<"r1", ":">>, stream |-> RelayedStream],
      [wire |-> <<"m1", ":", "n1">>, stream |-> "st1"],
      [wire |-> <<"m2", ":", "n2">>, stream |-> "st2"] }

\* C18: a matchLeave with a well-formed identifier takes the calling session, and no
\* other, off the stream the identifier names, member or not, leaves every other
\* stream alone and sends the empty acknowledgement.
C18_Leave ==
    [][\A c \in Callers, t \in LeaveTargets :
         matchLeave(c, Envelope("MatchLeave", t.wire))
         => /\ tracker'[t.stream] = tracker[t.stream] \ {SessionOf(c)}
            /\ \A o \in Streams \ {t.stream} : tracker'[o] = tracker[o]
            /\ req'[c] = Done("matchLeave", <<AckReply>>)
            /\ RegistryUntouched]_vars

\* No relayed match was ever created and no authoritative match ever started, so no
\* session was ever tracked on a stream, and c2's matchLeave was acknowledged.
C18_Witness ==
    /\ req["c2"] = Done("matchLeave", <<AckReply>>)
    /\ req["c1"] = NoRequest
    /\ issued = {}
    /\ handler["m1"] = "none"

(***************************************************************************)
(* matchDataSend to an authoritative match.                                *)
(***************************************************************************)
\* C19: the registry's SendData runs only for a session tracked on the stream of the
\* match its data names; the matchDataSend of a session that is not tracked there
\* returns at the lookup, reaches no mailbox, and no matchDataSend sends the session
\* anything.
C19_MembersOnly ==
    /\ [][\A c \in Callers, id \in AuthIds :
            (matchDataSendParsed(c, id[1], id[2]) /\ ~Member(c, PresenceStream(id[1], id[2])))
            => /\ req'[c] = Done("matchDataSend", <<>>)
               /\ RegistryUntouched]_vars
    /\ [](\A c \in Callers :
            calls[c].op = "SendData" =>
               /\ req[c].op = "matchDataSend"
               /\ Member(c, req[c].stream))
    /\ [](\A c \in Callers : req[c].op = "matchDataSend" => req[c].out = <<>>)

\* m1 is registered and its actor has been handed nothing; c1, tracked on no stream,
\* sent data that was dropped, and c2, tracked on the stream of m1, is in SendData.
C19_Witness ==
    /\ "m1" \in matches
    /\ mailbox["m1"] = <<>>
    /\ current["m1"] = NoMsg
    /\ \A stream \in Streams : ~Member("c1", stream)
    /\ req["c1"] = Done("matchDataSend", <<>>)
    /\ Member("c2", "st1")
    /\ calls["c2"] = Found("SendData", "m1")

(***************************************************************************)
(* Malformed match identifiers.                                            *)
(***************************************************************************)
\* Identifiers without a separator, or whose identifier part is no valid id.
MalformedIds ==
    { <<"r1">>, <<"m1", "n1">>, <<"zz", ":">>, <<"zz", ":", "n1">>, <<":", "n1">>, <<>> }

\* The step changes neither a stream nor the registry and routes nothing.
NoStateChange ==
    /\ tracker' = tracker
    /\ lastSend' = lastSend
    /\ issued' = issued
    /\ RegistryUntouched

\* C20: a message with a malformed match identifier changes no state: matchJoin and
\* matchLeave answer the sender with BadInput, matchDataSend sends nothing.
C20_Malformed ==
    [][\A c \in Callers, w \in MalformedIds :
         /\ matchJoin(c, Envelope("MatchJoin", w))
            => /\ req'[c] = Done("matchJoin", <<ErrorReply("BAD_INPUT")>>)
               /\ NoStateChange
         /\ matchLeave(c, Envelope("MatchLeave", w))
            => /\ req'[c] = Done("matchLeave", <<ErrorReply("BAD_INPUT")>>)
               /\ NoStateChange
         /\ matchDataSend(c, Envelope("MatchDataSend", w))
            => /\ req'[c].out = <<>>
               /\ NoStateChange]_vars

(***************************************************************************)
(* The identifier a handler parses.                                        *)
(***************************************************************************)
\* C23: matchJoin and matchDataSend parse the well-formed identifier their own message
\* carries and go on with the stream it names: neither fails, neither treats it as
\* malformed.
C23_OwnIdentifier ==
    [][\A c \in Callers, t \in LeaveTargets :
         /\ matchJoin(c, Envelope("MatchJoin", t.wire))
            => /\ req'[c].pc # "panicked"
               /\ req'[c].out # <<ErrorReply("BAD_INPUT")>>
               /\ \/ req'[c].stream = t.stream
                  \/ req'[c] = Done("matchJoin", <<ErrorReply("MATCH_NOT_FOUND")>>)
         /\ matchDataSend(c, Envelope("MatchDataSend", t.wire))
            => /\ req'[c].pc # "panicked"
               /\ \/ t.stream = RelayedStream /\ lastSend'.pc = "sent"
                  \/ t.stream # RelayedStream /\ req'[c].op = "matchDataSend"]_vars

(***************************************************************************)
(* Leaving an authoritative match.                                         *)
(***************************************************************************)
\* The identifiers of authoritative matches a matchLeave may carry.
AuthLeaveTargets == { t \in LeaveTargets : t.stream \in AuthStreams }

\* C24 as the specification states it: the matchLeave of a session tracked on the
\* stream of an authoritative match calls the registry's Leave for that match.
C24_LeaveForwarded ==
    [][\A c \in Callers, t \in AuthLeaveTargets :
         (matchLeave(c, Envelope("MatchLeave", t.wire)) /\ Member(c, t.stream))
         => /\ calls'[c].op = "Leave"
            /\ (t.wire[1] \in matches /\ t.wire[3] = LocalNode)
                  => calls'[c] = Found("Leave", t.wire[1])]_vars

\* C24, amended: the matchLeave of a member of an authoritative match takes the session
\* off the stream and acknowledges; the handler calls no registry operation and puts
\* no message in a mailbox, and no handler of the pipeline ever calls Leave.
C24_LeaveUntracksOnly ==
    /\ [][\A c \in Callers, t \in AuthLeaveTargets :
            (matchLeave(c, Envelope("MatchLeave", t.wire)) /\ Member(c, t.stream))
            => /\ ~Member(c, t.stream)'
               /\ req'[c] = Done("matchLeave", <<AckReply>>)
               /\ calls' = calls
               /\ mailbox' = mailbox
               /\ current' = current]_vars
    /\ [](\A c \in Callers : calls[c].op # "Leave")
    /\ [](\A id \in MatchIds :
            LeaveMsg \notin Range(mailbox[id]) /\ current[id] # LeaveMsg)

\* The actor of m1 accepted c1 and then c2, which was sent the match with both
\* presences; c1 then left: it is off the stream and acknowledged, and the running
\* actor, registered and idle with an empty mailbox, was handed nothing.
C24_Witness ==
    /\ joinsStarted = 2
    /\ req["c2"] = Done("matchJoin", <<MatchReply({SessionOf("c1"), SessionOf("c2")})>>)
    /\ req["c1"] = Done("matchLeave", <<AckReply>>)
    /\ tracker[ActorStream] = {SessionOf("c2")}
    /\ ActorMatch \in matches
    /\ handler[ActorMatch] = "running"
    /\ mailbox[ActorMatch] = <<>>
    /\ current[ActorMatch] = NoMsg

(***************************************************************************)
(***************************************************************************)
(* The read lock of Join.                                                  *)
(***************************************************************************)
\* The Joins that have found their match and have not returned.
Blocked == { c \in Callers : calls[c].op = "Join" /\ calls[c].pc \in {"found", "waiting"} }

\* C26: a Join holds the read lock for the lookup alone: however many Joins are past
\* their lookup and waiting, NewMatch, RemoveMatch and Stop take the write lock as soon
\* as no other writer holds it, and go on to their end.
C26_WritersNotBlocked ==
    /\ [](~wlock =>
            /\ \A id \in pending : ENABLED NewMatchInsert(id)
            /\ rm.pc \in {"idle", "done"} =>
                  \A id \in MatchIds : ENABLED RemoveMatchDelete(id, ActorStream)
            /\ stop.pc = "idle" => ENABLED StopBegin)
    /\ [](rm.pc = "deleted" => ENABLED RemoveMatchUntrack)
    /\ [](stop.pc = "clearing" =>
            IF matches = {} THEN ENABLED StopEnd
            ELSE \A id \in matches : ENABLED StopStep(id))
    /\ [][\A c \in Callers : c \in Blocked => (c \in Blocked' \/ calls'[c].pc = "done")]_vars

\* Both matches were registered when Stop took the write lock, and Stop has returned:
\* nothing can be found in the directory any more.  Both callers are still waiting, so
\* they were past their lookup before Stop began and waited all through it; a
\* RemoveMatch has returned as well.
C26_Witness ==
    /\ calls["c1"] = Waiting(1)
    /\ calls["c2"] = Waiting(2)
    /\ stop.pc = "done"
    /\ stop.found = MatchIds
    /\ rm.pc = "done"
    /\ ~wlock

(***************************************************************************)
(* Removal against creation and against joins.                             *)
(***************************************************************************)
\* C27: a match for which RemoveMatch has returned is not in the directory, whatever
\* NewMatch does around it, also when the actor NewMatch has started removes its match
\* before NewMatch has inserted it.
C27_RemovedStaysRemoved ==
    rm.pc = "done" => rm.id \notin matches

\* C28: once RemoveMatch has returned for a match it found registered, no session
\* becomes tracked on the stream of that match, also not the session of a matchJoin
\* that the actor accepted before the removal.
C28_NoJoinAfterRemove ==
    [][\A c \in Callers :
         (rm.pc = "done" /\ rm.wasIn /\ ~Member(c, rm.stream))
         => ~Member(c, rm.stream)']_vars

\* The actor has accepted the attempt that carries channel ch, and no Join has read
\* the answer.
AcceptedUnread(ch) == resultCh[ch] # <<>> /\ Head(resultCh[ch]).d

Replies(id) ==
    /\ current[id].kind = "JoinAttempt"
    /\ current'[id] = NoMsg

\* C25: the actor's answer to a join attempt never waits for a reader: whenever its
\* callback on an attempt is running it can write the answer, also when the Join has
\* returned on the ticker; the write leaves the answer in the channel's one slot, and
\* the actor is free for the next message of its mailbox.
C25_LateReply ==
    /\ [](\A id \in MatchIds :
            current[id].kind = "JoinAttempt" => ENABLED ActorFinish(id))
    /\ [][\A id \in MatchIds :
            Replies(id)
            => /\ Len(resultCh'[current[id].ch]) = 1
               /\ calls' = calls
               /\ mailbox' = mailbox]_vars
    /\ [](\A id \in MatchIds :
            (handler[id] = "running" /\ current[id] = NoMsg /\ mailbox[id] # <<>>)
            => ENABLED ActorDequeue(id))
    /\ [](\A ch \in Channels : Len(resultCh[ch]) <= ChannelCapacity)

\* Only two attempts were ever enqueued, and c1 has since been refused by a full
\* mailbox: both attempts were still waiting then, so the Join of the first had ended
\* on the ticker.  The actor has answered that attempt afterwards, the answer lies
\* unread in its channel, and the actor is processing the attempt that was behind it.
C25_Witness ==
    /\ calls["c1"] = Returned("Join", "full", <<TRUE, FALSE>>)
    /\ calls["c2"] = Waiting(2)
    /\ joinsStarted = QueueSize
    /\ resultCh[1] # <<>>
    /\ ~Reading(1)
    /\ current["m1"] = JoinAttempt(2)
    /\ mailbox["m1"] = <<>>
    /\ handler["m2"] = "none"
    /\ stop.pc = "idle"

(***************************************************************************)
(* Relayed matches and the registry.                                       *)
(***************************************************************************)
\* The step is one of c's handlers working on the relayed match.
RelayedStep(c) ==
    \/ matchCreate(c)
    \/ matchLeave(c, Envelope("MatchLeave", RelayedWire))
    \/ matchJoinParsed(c, "r1", NoLabel)
    \/ RelayedJoinStep(c)
    \/ matchDataSendRelayed(SessionOf(c), <<>>)

\* C22: no handler working on an identifier with an empty node label changes the
\* directory, a handler's state or a mailbox, or calls the registry: matchCreate,
\* matchJoin, matchLeave and matchDataSend are settled against the tracker alone.
C22_RelayedNoRegistry ==
    /\ [][\A c \in Callers :
            RelayedStep(c)
            => /\ RegistryUntouched
               /\ handler' = handler
               /\ pending' = pending
               /\ current' = current
               /\ resultCh' = resultCh]_vars
    /\ [](\A c \in Callers : req[c].stream = RelayedStream => calls[c] = NoCall)
    /\ [](\A c \in Callers : calls[c].op \in {"none", "Join"})
    /\ [](\A c \in Callers : calls[c].op = "Join" => req[c].stream = ActorStream)

\* The relayed match holds both sessions: c1 created it, c2 joined it after its Join of
\* m1 had ended on the ticker, and c1's data was routed to c2.  The directory holds m1
\* and the mailbox of m1 that one join attempt: nothing else ever reached the registry.
C22_Witness ==
    /\ tracker[RelayedStream] = {SessionOf("c1"), SessionOf("c2")}
    /\ req["c1"] = Done("matchCreate", <<MatchReply({SessionOf("c1")})>>)
    /\ req["c2"] = Done("matchJoin", <<MatchReply({SessionOf("c1"), SessionOf("c2")})>>)
    /\ lastSend.pc = "sent"
    /\ lastSend.session = SessionOf("c1")
    /\ lastSend.routed = << <<SessionOf("c2")>> >>
    /\ matches = {ActorMatch}
    /\ mailbox[ActorMatch] = <<JoinAttempt(1)>>
    /\ joinsStarted = 1
    /\ \A c \in Callers : calls[c] = NoCall

(***************************************************************************)
(* Kick.                                                                   *)
(***************************************************************************)
\* The presences a list names.
Listed(presences) == { presences[i] : i \in DOMAIN presences }

\* C21: Kick(stream, presences) takes off the stream the listed presences of the local
\* node and no other: listed presences of other nodes and presences not listed stay
\* tracked, every other stream, the directory, the handlers and every mailbox are as
\* they were.
C21_Kick ==
    [][\A stream \in AuthStreams, presences \in SeqsUpTo(Presences, MaxKick) :
         (/\ kicked'.stream = stream
          /\ kicked'.presences = presences
          /\ Kick(stream, presences))
         => /\ tracker'[stream] =
                  { p \in tracker[stream] :
                       ~(p \in Listed(presences) /\ p.node = LocalNode) }
            /\ \A o \in Streams \ {stream} : tracker'[o] = tracker[o]
            /\ matches' = matches
            /\ pending' = pending
            /\ handler' = handler
            /\ mailbox' = mailbox
            /\ calls' = calls]_vars

\* The stream held all three presences; the Kick listed one of this node and the one of
\* the other node, and the stream now holds the other node's and the one not listed,
\* while m1 is registered with a Leave in its mailbox.
C21_Witness ==
    /\ kicked.pc = "done"
    /\ kicked.found = Presences
    /\ Len(kicked.presences) = 2
    /\ \E p, q \in Listed(kicked.presences) : p.node = LocalNode /\ q.node # LocalNode
    /\ tracker[kicked.stream] =
          { p \in Presences : p.node # LocalNode \/ p \notin Listed(kicked.presences) }
    /\ Cardinality(tracker[kicked.stream]) = 2
    /\ ActorMatch \in matches
    /\ mailbox[ActorMatch] # <<>>

====
